---- MODULE Spec2Model ----
(***************************************************************************)
(* Model of twse-codes. Two programs share the listing-page parser:        *)
(*   src/codes.py: _crawl_from_url, download_codes (codes.csv, MariaDB)    *)
(*     and get (./cache, MariaDB, codes.csv);                              *)
(*   src/twse_codes/codes.py: _crawl_from_url, download_codes and get on   *)
(*     the SQLite file twse_codes.db.                                      *)
(* SpecCrawl steps through one call of src/codes.py's _crawl_from_url,     *)
(* SpecScript runs calls of src/codes.py's download_codes and get, and     *)
(* Spec runs calls of src/twse_codes/codes.py's download_codes, get and    *)
(* main.                                                                   *)
(*                                                                         *)
(* Python text is a sequence of characters; a character is a one-character *)
(* string, or the token "U+XXXX" for a code point outside ASCII.           *)
(* A Python value of a cell is a record [k, s, n]: k its type, s its text, *)
(* n its number.                                                           *)
(***************************************************************************)
EXTENDS Integers, Sequences, FiniteSets, TLC

VARIABLES
    \* _crawl_from_url of src/codes.py, one call: the url and the response, the
    \* position in the function, the loop index, the locals category and datasets,
    \* the outcome
    url, html, pc, i, category, datasets, crawled,
    \* the table twse of twse_codes.db: [exists, rows]
    sqlite,
    \* the last call of download_codes or get: its arguments and outcome
    ret,
    \* the responses of the three endpoints during the last call
    pages,
    \* the MariaDB server and its table mt_symbols.twse: [up, schema, exists, rows]
    mariadb,
    \* the working directory of src/codes.py: [cache_dir, cache, csv]
    files,
    \* the stores as they were when the last call began
    prev

crawl_vars == <<url, html, pc, i, category, datasets, crawled>>
store_vars == <<sqlite, mariadb, files, ret, pages, prev>>
vars == <<url, html, pc, i, category, datasets, crawled, sqlite, mariadb, files, ret, pages,
          prev>>

-----------------------------------------------------------------------------
(* Bounds of the model *)

\* body rows (after the title row) of a page in SpecCrawl
MaxRows == 4

\* data rows under the category row of a page in Spec
MaxDataRows == 1

-----------------------------------------------------------------------------
(* Python values *)

PyStr(text) == [k |-> "str", s |-> text, n |-> 0]
PyNone == [k |-> "None", s |-> <<>>, n |-> 0]

\* the full-width space U+3000, written literally in the source
FW == "U+3000"

\* str.strip() removes these (Unicode whitespace) from both ends
Whitespace == {" ", "\n", "\t", FW}

\* list.insert(index, x) with a non-negative 0-based index: past the end appends
list_insert(l, index, x) ==
    LET p == IF index > Len(l) THEN Len(l) ELSE index
    IN  SubSeq(l, 1, p) \o <<x>> \o SubSeq(l, p + 1, Len(l))

\* str.split(sep) for a one-character separator
RECURSIVE str_split(_, _)
str_split(text, sep) ==
    IF \A j \in 1..Len(text) : text[j] # sep
    THEN <<text>>
    ELSE LET p == CHOOSE j \in 1..Len(text) :
                      text[j] = sep /\ \A m \in 1..(j - 1) : text[m] # sep
         IN  <<SubSeq(text, 1, p - 1)>>
                 \o str_split(SubSeq(text, p + 1, Len(text)), sep)

\* str.replace(old, "") for a one-character old
str_replace(text, old) == SelectSeq(text, LAMBDA c : c # old)

\* str.strip()
str_strip(text) ==
    LET keep == {j \in 1..Len(text) : text[j] \notin Whitespace}
    IN  IF keep = {} THEN <<>>
        ELSE SubSeq(text,
                    CHOOSE j \in keep : \A m \in keep : j <= m,
                    CHOOSE j \in keep : \A m \in keep : m <= j)

-----------------------------------------------------------------------------
(* Models: the record schema and the categories *)

\* Models.DataColumns.get_columns_short()
get_columns_short == <<"sc", "cn", "ca", "ic", "dl", "ma", "si", "cc", "no">>

\* position of a short column name in the schema order
ColumnIndex(c) == CHOOSE j \in 1..Len(get_columns_short) : get_columns_short[j] = c

\* Models.CodesCategory: member name -> value
CodesCategory ==
    [STOCK |-> <<"U+80A1", "U+7968">>,
     WARRANT |-> <<"U+4E0A", "U+5E02", "U+8A8D", "U+8CFC", "(", "U+552E", ")", "U+6B0A", "U+8B49">>,
     SPECIAL_STOCK |-> <<"U+7279", "U+5225", "U+80A1">>,
     INNOVATION_BOARD |-> <<"U+5275", "U+65B0", "U+677F">>,
     ETF |-> <<"E", "T", "F">>,
     ETN |-> <<"E", "T", "N">>,
     TDR |-> <<"U+81FA", "U+7063", "U+5B58", "U+8A17", "U+6191", "U+8B49", "(", "T", "D", "R", ")">>,
     ASSET_BASED_SECURITIES |-> <<"U+53D7", "U+76CA", "U+8B49", "U+5238", "-", "U+8CC7", "U+7522", "U+57FA", "U+790E", "U+8B49", "U+5238">>,
     REIT |-> <<"U+53D7", "U+76CA", "U+8B49", "U+5238", "-", "U+4E0D", "U+52D5", "U+7522", "U+6295", "U+8CC7", "U+4FE1", "U+8A17">>,
     OTC_WARRANT |-> <<"U+4E0A", "U+6AC3", "U+8A8D", "U+8CFC", "(", "U+552E", ")", "U+6B0A", "U+8B49">>,
     INDEX |-> <<"U+6307", "U+6578">>]

\* Models.CodesCategory._member_names_
member_names == DOMAIN CodesCategory

\* the three endpoints, each named by the query string that tells it apart:
\* as src/codes.py names them, and as src/twse_codes/codes.py names them
TWS_URL == "strMode=2"
OTC_URL == "strMode=4"
FUTURE_URL == "strMode=11"
_TWS_URL == "strMode=2"
_OTC_URL == "strMode=4"
_FUTURE_URL == "strMode=11"

-----------------------------------------------------------------------------
(* _crawl_from_url of src/codes.py *)

\* the body of the futures loop for one <tr>: its cells' texts, the category
future_row(all_td, cat) ==
    LET d0 == [j \in 1..Len(all_td) |-> PyStr(all_td[j])]
        d1 == list_insert(d0, 3, PyStr(<<>>))
        d2 == list_insert(d1, 3, PyStr(<<>>))
        symbol_column == str_split(d2[1].s, FW)
        d3 == list_insert(d2, 1, cat)
        d4 == list_insert(d3, 0, PyStr(symbol_column[1]))
    IN  IF Len(symbol_column) < 2
        THEN [exc |-> "IndexError", category |-> cat, emit |-> <<>>]
        ELSE [exc |-> "none", category |-> cat,
              emit |-> <<[d4 EXCEPT ![2] = PyStr(symbol_column[2])]>>]

\* the other loop, were a one-cell row to leave the category as it is
other_row_keeps_category(all_td, cat) ==
    IF Len(all_td) <= 1
    THEN IF Len(all_td) = 0
         THEN [exc |-> "IndexError", category |-> cat, emit |-> <<>>]
         ELSE [exc |-> "none", category |-> cat, emit |-> <<>>]
    ELSE LET d0 == [j \in 1..Len(all_td) |-> PyStr(all_td[j])]
             symbol_column == str_split(d0[1].s, FW)
             d1 == list_insert(d0, 1, cat)
             d2 == list_insert(d1, 0, PyStr(str_replace(symbol_column[1], " ")))
         IN  IF Len(symbol_column) < 2
             THEN [exc |-> "IndexError", category |-> cat, emit |-> <<>>]
             ELSE [exc |-> "none", category |-> cat,
                   emit |-> <<[d2 EXCEPT ![2] = PyStr(symbol_column[2])]>>]

\* the other loop, were the symbol taken as it stands in the cell
other_row_keeps_spaces(all_td, cat) ==
    IF Len(all_td) <= 1
    THEN IF Len(all_td) = 0
         THEN [exc |-> "IndexError", category |-> cat, emit |-> <<>>]
         ELSE [exc |-> "none", category |-> PyStr(str_strip(all_td[1])), emit |-> <<>>]
    ELSE LET d0 == [j \in 1..Len(all_td) |-> PyStr(all_td[j])]
             symbol_column == str_split(d0[1].s, FW)
             d1 == list_insert(d0, 1, cat)
             d2 == list_insert(d1, 0, PyStr(symbol_column[1]))
         IN  IF Len(symbol_column) < 2
             THEN [exc |-> "IndexError", category |-> cat, emit |-> <<>>]
             ELSE [exc |-> "none", category |-> cat,
                   emit |-> <<[d2 EXCEPT ![2] = PyStr(symbol_column[2])]>>]

\* the other loop, were the category put second and the name third
other_row_category_second(all_td, cat) ==
    IF Len(all_td) <= 1
    THEN IF Len(all_td) = 0
         THEN [exc |-> "IndexError", category |-> cat, emit |-> <<>>]
         ELSE [exc |-> "none", category |-> PyStr(str_strip(all_td[1])), emit |-> <<>>]
    ELSE LET d0 == [j \in 1..Len(all_td) |-> PyStr(all_td[j])]
             symbol_column == str_split(d0[1].s, FW)
             d1 == list_insert(d0, 0, cat)
             d2 == list_insert(d1, 0, PyStr(str_replace(symbol_column[1], " ")))
         IN  IF Len(symbol_column) < 2
             THEN [exc |-> "IndexError", category |-> cat, emit |-> <<>>]
             ELSE [exc |-> "none", category |-> cat,
                   emit |-> <<[d2 EXCEPT ![3] = PyStr(symbol_column[2])]>>]

\* the body of the other loop for one <tr>
other_row(all_td, cat) ==
    IF Len(all_td) <= 1
    THEN IF Len(all_td) = 0
         THEN [exc |-> "IndexError", category |-> cat, emit |-> <<>>]
         ELSE [exc |-> "none", category |-> PyStr(str_strip(all_td[1])), emit |-> <<>>]
    ELSE LET d0 == [j \in 1..Len(all_td) |-> PyStr(all_td[j])]
             symbol_column == str_split(d0[1].s, FW)
             d1 == list_insert(d0, 1, cat)
             d2 == list_insert(d1, 0, PyStr(str_replace(symbol_column[1], " ")))
         IN  IF Len(symbol_column) < 2
             THEN [exc |-> "IndexError", category |-> cat, emit |-> <<>>]
             ELSE [exc |-> "none", category |-> cat,
                   emit |-> <<[d2 EXCEPT ![2] = PyStr(symbol_column[2])]>>]

\* one iteration of whichever loop the url selects
row_step(u, all_td, cat) ==
    IF u = FUTURE_URL THEN future_row(all_td, cat) ELSE other_row(all_td, cat)

\* category before the loop
initial_category(u) == IF u = FUTURE_URL THEN PyStr(CodesCategory.INDEX) ELSE PyNone

\* table.find_all("tr")[1:]
body_rows(table) == IF table = <<>> THEN <<>> ELSE Tail(table)

MaxOf(S) == CHOOSE x \in S : \A y \in S : y <= x
MinOf(S) == CHOOSE x \in S : \A y \in S : x <= y

\* pd.DataFrame(datasets, columns=headings): rows are padded with None to the
\* longest row, whose length must be the number of columns
pd_DataFrame(data, columns) ==
    LET width == IF data = <<>> THEN 0 ELSE MaxOf({Len(data[j]) : j \in 1..Len(data)})
    IN  IF data # <<>> /\ width # Len(columns)
        THEN [exc |-> "ValueError", index |-> "RangeIndex", rows |-> <<>>]
        ELSE [exc |-> "none", index |-> "RangeIndex",
              rows |-> [j \in 1..Len(data) |->
                          [c \in 1..Len(columns) |->
                              IF c <= Len(data[j]) THEN data[j][c] ELSE PyNone]]]

Raised(e) == [exc |-> e, index |-> "RangeIndex", rows |-> <<>>]

\* the loop over table.find_all("tr")[1:], from the category and datasets so far
RECURSIVE crawl_loop(_, _, _, _)
crawl_loop(u, rows, cat, data) ==
    IF rows = <<>> THEN [exc |-> "none", datasets |-> data]
    ELSE LET r == row_step(u, Head(rows), cat)
         IN  IF r.exc # "none" THEN [exc |-> r.exc, datasets |-> <<>>]
             ELSE crawl_loop(u, Tail(rows), r.category, data \o r.emit)

\* _crawl_from_url(url) of src/codes.py when requests.get(url) answers page
codes_py_crawl_from_url(u, page) ==
    IF page.status_code # 200 THEN Raised("ConnectionError")
    ELSE IF ~page.h4 THEN Raised("AttributeError")
    ELSE LET l == crawl_loop(u, body_rows(page.table), initial_category(u), <<>>)
         IN  IF l.exc # "none" THEN Raised(l.exc)
             ELSE pd_DataFrame(l.datasets, get_columns_short)

\* _crawl_from_url(url) of src/twse_codes/codes.py when requests.get(url) answers
\* page. Its loops read table.find_ALL("tr"): a Tag has no attribute find_ALL, so
\* the name is looked up as a child tag, which gives None, and calling None
\* raises TypeError before the first row is read
_crawl_from_url(u, page) ==
    IF page.status_code # 200 THEN Raised("ConnectionError")
    ELSE IF ~page.h4 THEN Raised("AttributeError")
    ELSE Raised("TypeError")

-----------------------------------------------------------------------------
(* pandas and the SQLite table *)

\* the characters of the model in code point order
CharOrder ==
    <<"\t", "\n", " ", "(", ")", "-", "0", "1", "2", "3", "4", "5", "6", "7", "8", "9",
      "C", "D", "E", "F", "I", "N", "O", "R", "T", "X", "Z", "c", "e", "n", "o", "t",
      "U+3000", "U+4E0A", "U+4E0D", "U+4FE1", "U+5225", "U+5238", "U+5275", "U+52D5",
      "U+53D7", "U+552E", "U+57FA", "U+5B58", "U+5E02", "U+6191", "U+6295", "U+6307",
      "U+6578", "U+65B0", "U+677F", "U+6AC3", "U+6B0A", "U+7063", "U+7279", "U+7522",
      "U+76CA", "U+790E", "U+7968", "U+80A1", "U+81FA", "U+8A17", "U+8A8D", "U+8B49",
      "U+8CC7", "U+8CFC">>

ord(c) == CHOOSE j \in 1..Len(CharOrder) : CharOrder[j] = c

\* a < b for two texts, by code point
RECURSIVE str_lt(_, _)
str_lt(a, b) ==
    IF b = <<>> THEN FALSE
    ELSE IF a = <<>> THEN TRUE
    ELSE IF Head(a) # Head(b) THEN ord(Head(a)) < ord(Head(b))
    ELSE str_lt(Tail(a), Tail(b))

Symbol(row) == row[ColumnIndex("sc")]

\* rows in ascending order of the symbol column, ties in their given order
RECURSIVE sort_by_symbol(_)
sort_by_symbol(rows) ==
    IF rows = <<>> THEN <<>>
    ELSE LET m == CHOOSE j \in 1..Len(rows) :
                      /\ \A h \in 1..Len(rows) : ~str_lt(Symbol(rows[h]).s, Symbol(rows[j]).s)
                      /\ \A h \in 1..(j - 1) : str_lt(Symbol(rows[j]).s, Symbol(rows[h]).s)
         IN  <<rows[m]>> \o sort_by_symbol(SubSeq(rows, 1, m - 1) \o SubSeq(rows, m + 1, Len(rows)))

\* pd.concat([df, dfx], ignore_index=True)
pd_concat(df, dfx) == df \o dfx

\* df.sort_values(symbol_col): returns a sorted copy, df itself is left as it is
sort_values(rows) == sort_by_symbol(rows)

\* str(v) for one cell
to_str(v) == IF v.k = "None" THEN PyStr(<<"N", "o", "n", "e">>) ELSE v

\* df.astype({c: str ...}) on the columns named
astype_str(rows, columns) ==
    [j \in 1..Len(rows) |->
        [c \in 1..Len(rows[j]) |->
            IF get_columns_short[c] \in columns THEN to_str(rows[j][c]) ELSE rows[j][c]]]

NoTwse == [exists |-> FALSE, rows |-> <<>>]

\* df.to_sql(_TABLE_NAME, conn, index=True, if_exists="replace"): the table after
to_sql(rows, table) == [exists |-> TRUE, rows |-> rows]

\* what to_sql returns: the number of rows inserted
to_sql_result(rows) == Len(rows)

NoValue == [index |-> "None", rows |-> <<>>]

\* the I/O of a call, in the order done: the first n requests of the loop over
\* [_TWS_URL, _OTC_URL, _FUTURE_URL]
Requests(n) == SubSeq(<<"GET strMode=2", "GET strMode=4", "GET strMode=11">>, 1, n)

\* an exception raised after the I/O in log
RaisedAfter(e, log) == [exc |-> e, index |-> "RangeIndex", rows |-> <<>>, log |-> log]

\* download_codes, its loop: the frames of the three endpoints concatenated in
\* the order fetched, or the first exception
download_codes_loop(tws, otc, fut) ==
    IF tws.exc # "none" THEN RaisedAfter(tws.exc, Requests(1))
    ELSE IF otc.exc # "none" THEN RaisedAfter(otc.exc, Requests(2))
    ELSE IF fut.exc # "none" THEN RaisedAfter(fut.exc, Requests(3))
    ELSE [exc |-> "none", index |-> "RangeIndex",
          rows |-> pd_concat(pd_concat(pd_concat(<<>>, tws.rows), otc.rows), fut.rows),
          log |-> Requests(3)]

\* download_codes, from the sort to set_index: the value of sort_values is
\* dropped, the frame goes on unsorted
download_codes_frame(df) ==
    LET sorted == sort_values(df)
    IN  astype_str(df, {"sc", "cn", "ca", "ic", "dl", "ma"})

\* download_codes, from engine.connect() to the end
download_codes_write(df, table, log) ==
    IF to_sql_result(df) = 0
    THEN [exc |-> "ConnectionRefusedError", value |-> NoValue, table |-> to_sql(df, table),
          log |-> Append(log, "to_sql")]
    ELSE [exc |-> "none", value |-> [index |-> "sc", rows |-> df],
          table |-> to_sql(df, table), log |-> Append(log, "to_sql")]

\* download_codes, after its loop
download_codes_persist(fetched, table) ==
    IF fetched.exc # "none"
    THEN [exc |-> fetched.exc, value |-> NoValue, table |-> table, log |-> fetched.log]
    ELSE download_codes_write(download_codes_frame(fetched.rows), table, fetched.log)

\* download_codes(output=True) when the endpoints answer pgs and the table is
\* table: the exception raised, the frame returned, the table afterwards
download_codes(pgs, table) ==
    download_codes_persist(
        download_codes_loop(_crawl_from_url(_TWS_URL, pgs[1]),
                            _crawl_from_url(_OTC_URL, pgs[2]),
                            _crawl_from_url(_FUTURE_URL, pgs[3])),
        table)

\* the rows of the table in the category, ALL for every row
where(cat, rows) ==
    IF cat = "ALL" THEN rows
    ELSE SelectSeq(rows, LAMBDA r : r[ColumnIndex("ca")] = PyStr(CodesCategory[cat]))

\* _query(), were the SELECT sent without its WHERE clause
query_without_where(cat, table) ==
    [index |-> "RangeIndex", rows |-> sort_by_symbol(table.rows)]

\* _query(): SELECT <columns> FROM `twse` [WHERE ca = '<value>'] ORDER BY sc
query(cat, table) ==
    [index |-> "RangeIndex", rows |-> sort_by_symbol(where(cat, table.rows))]

\* whether get(cat) goes on to download_codes
get_downloads(cat, table) ==
    /\ cat = "ALL" \/ cat \in member_names
    /\ table.exists
    /\ Len(where(cat, table.rows)) = 0

\* get, after download_codes returned or raised
get_downloaded(d) ==
    IF d.exc = "none" /\ Len(d.value.rows) = 0
    THEN [d EXCEPT !.exc = "FileExistsError", !.value = NoValue, !.log = <<"SELECT">> \o d.log]
    ELSE [d EXCEPT !.log = <<"SELECT">> \o d.log]

\* get, after _query() returned codes
get_queried(codes, pgs, table) ==
    IF Len(codes.rows) = 0
    THEN get_downloaded(download_codes(pgs, table))
    ELSE [exc |-> "none", value |-> codes, table |-> table, log |-> <<"SELECT">>]

\* get, were the category looked at only after _query() had run
get_checks_category_late(cat, pgs, table) ==
    IF ~table.exists
    THEN [exc |-> "OperationalError", value |-> NoValue, table |-> table,
          log |-> <<"SELECT">>]
    ELSE IF cat # "ALL" /\ cat \notin member_names
    THEN [exc |-> "TypeError", value |-> NoValue, table |-> table, log |-> <<"SELECT">>]
    ELSE get_queried(query(cat, table), pgs, table)

\* get(cat): the exception raised, the frame returned, the table afterwards
get(cat, pgs, table) ==
    IF cat # "ALL" /\ cat \notin member_names
    THEN [exc |-> "TypeError", value |-> NoValue, table |-> table, log |-> <<>>]
    ELSE IF ~table.exists
    THEN [exc |-> "OperationalError", value |-> NoValue, table |-> table,
          log |-> <<"SELECT">>]
    ELSE get_queried(query(cat, table), pgs, table)

\* main, line 271: print(ret); ret is assigned only under args.download and under
\* args.get, so without a flag the name is unbound
main_print(args, st) ==
    IF st.exc # "none" THEN st
    ELSE IF args = {}
    THEN [st EXCEPT !.exc = "UnboundLocalError", !.value = NoValue]
    ELSE [st EXCEPT !.log = Append(st.log, "print")]

\* main, lines 268-269: ret = get() when args.get
main_get(args, pgs, st) ==
    IF st.exc # "none" \/ "get" \notin args THEN st
    ELSE [get("ALL", pgs, st.table) EXCEPT !.log = st.log \o @]

\* main, lines 266-267: ret = download_codes(output=True) when args.download
main_download(args, pgs, table) ==
    IF "download" \in args THEN download_codes(pgs, table)
    ELSE [exc |-> "none", value |-> NoValue, table |-> table, log |-> <<>>]

\* main() run as a script: args holds the flags given, of --download and --get
main(args, pgs, table) == main_print(args, main_get(args, pgs, main_download(args, pgs, table)))

\* whether main() requests the endpoints
main_downloads(args, table) ==
    "download" \in args \/ ("get" \in args /\ get_downloads("ALL", table))

-----------------------------------------------------------------------------
(* src/codes.py: the values and the files of pandas' CSV reader and writer *)

PyInt(m) == [k |-> "int", s |-> <<>>, n |-> m]
\* the float m.0
PyFloat(m) == [k |-> "float", s |-> <<>>, n |-> m]
NaN == [k |-> "nan", s |-> <<>>, n |-> 0]

Digits == <<"0", "1", "2", "3", "4", "5", "6", "7", "8", "9">>
IsDigit(c) == \E d \in 1..Len(Digits) : Digits[d] = c
DigitValue(c) == (CHOOSE d \in 1..Len(Digits) : Digits[d] = c) - 1

\* the fields read_csv takes for missing (its default na_values)
na_values ==
    { <<>>, <<"N", "A">>, <<"N", "/", "A">>, <<"n", "/", "a">>, <<"N", "a", "N">>,
      <<"n", "a", "n">>, <<"N", "U", "L", "L">>, <<"n", "u", "l", "l">>,
      <<"N", "o", "n", "e">>, <<"<", "N", "A", ">">>, <<"#", "N", "A">>,
      <<"#", "N", "/", "A">>, <<"-", "N", "a", "N">>, <<"-", "n", "a", "n">> }

\* the field is an integer literal: digits after an optional sign
is_int(text) ==
    LET body == IF text # <<>> /\ Head(text) \in {"-", "+"} THEN Tail(text) ELSE text
    IN  body # <<>> /\ \A j \in 1..Len(body) : IsDigit(body[j])

\* the field is an integer literal followed by ".0"
is_float(text) ==
    /\ Len(text) > 2
    /\ SubSeq(text, Len(text) - 1, Len(text)) = <<".", "0">>
    /\ is_int(SubSeq(text, 1, Len(text) - 2))

RECURSIVE digits_value(_)
digits_value(text) ==
    IF text = <<>> THEN 0
    ELSE 10 * digits_value(SubSeq(text, 1, Len(text) - 1)) + DigitValue(text[Len(text)])

\* int(text) for an integer literal
parse_int(text) ==
    IF Head(text) = "-" THEN 0 - digits_value(Tail(text))
    ELSE IF Head(text) = "+" THEN digits_value(Tail(text))
    ELSE digits_value(text)

\* the number of a field that is_int or is_float
parse_number(text) ==
    IF is_float(text) THEN parse_int(SubSeq(text, 1, Len(text) - 2)) ELSE parse_int(text)

RECURSIVE nat_text(_)
nat_text(m) ==
    IF m < 10 THEN <<Digits[m + 1]>> ELSE nat_text(m \div 10) \o <<Digits[(m % 10) + 1]>>

\* str(m) for an int
int_text(m) == IF m < 0 THEN <<"-">> \o nat_text(0 - m) ELSE nat_text(m)

\* a file that is not there, and a CSV file: its lines after the header line,
\* each the texts of its fields
NoFile == [exists |-> FALSE, rows |-> <<>>]
CsvFile(lines) == [exists |-> TRUE, rows |-> lines]

\* the field to_csv writes for one cell
csv_field(v) ==
    CASE v.k = "str" -> v.s
      [] v.k = "int" -> int_text(v.n)
      [] v.k = "float" -> int_text(v.n) \o <<".", "0">>
      [] OTHER -> <<>>   \* None and NaN

\* df.to_csv(path, index=False): the lines after the header line
to_csv(rows) == [j \in 1..Len(rows) |-> [c \in 1..Len(rows[j]) |-> csv_field(rows[j][c])]]

\* the dtype read_csv infers for column c of the lines
dtype(lines, c) ==
    LET present == {j \in 1..Len(lines) : lines[j][c] \notin na_values}
    IN  IF \A j \in present : is_int(lines[j][c])
        THEN IF present = 1..Len(lines) THEN "int64" ELSE "float64"
        ELSE IF \A j \in present : is_int(lines[j][c]) \/ is_float(lines[j][c])
        THEN "float64"
        ELSE "object"

\* the cell read_csv makes of a field in a column of dtype t
csv_cell(text, t) ==
    IF text \in na_values THEN NaN
    ELSE CASE t = "int64" -> PyInt(parse_number(text))
           [] t = "float64" -> PyFloat(parse_number(text))
           [] OTHER -> PyStr(text)

\* pd.read_csv(path): the rows of the frame
read_csv(lines) ==
    [j \in 1..Len(lines) |->
        [c \in 1..Len(lines[j]) |-> csv_cell(lines[j][c], dtype(lines, c))]]

\* codes.where(codes["ca"] == value).dropna(subset="sc").reset_index(drop=True):
\* where() puts NaN in every cell of a row that does not match, which makes an
\* int64 column float64; dropna() then drops the rows whose symbol is missing
where_dropna(rows, value) ==
    LET matches(r) == r[ColumnIndex("ca")] = PyStr(value)
        masked == \E j \in 1..Len(rows) : ~matches(rows[j])
        kept == SelectSeq(rows, LAMBDA r : matches(r) /\ Symbol(r).k \notin {"nan", "None"})
    IN  [j \in 1..Len(kept) |->
            [c \in 1..Len(kept[j]) |->
                IF masked /\ kept[j][c].k = "int" THEN PyFloat(kept[j][c].n) ELSE kept[j][c]]]

-----------------------------------------------------------------------------
(* src/codes.py: download_codes and get on MariaDB, codes.csv and ./cache *)

\* the server and the table mt_symbols.twse: whether engine.connect() succeeds,
\* whether the schema is there, whether the table is there, its rows
NoMariadb == [up |-> FALSE, schema |-> FALSE, exists |-> FALSE, rows |-> <<>>]

\* the working directory: whether ./cache is a directory, the file
\* ./cache/<category.lower_name>.csv of every category, and ./codes.csv
NoFiles == [cache_dir |-> FALSE, cache |-> [c \in member_names |-> NoFile], csv |-> NoFile]

\* verify_database(conn, table_name, create): what it returns and the server
\* afterwards; with_table is table_name is not None
verify_database(db, with_table, create) ==
    IF ~db.schema /\ ~create THEN [ok |-> FALSE, db |-> db]
    ELSE IF with_table /\ ~db.exists THEN [ok |-> FALSE, db |-> [db EXCEPT !.schema = TRUE]]
    ELSE [ok |-> TRUE, db |-> [db EXCEPT !.schema = TRUE]]

\* the statements verify_database sends, in the order sent
verify_database_log(db, with_table, create) ==
    <<"has_schema">>
        \o (IF ~db.schema /\ create THEN <<"CREATE SCHEMA">> ELSE <<>>)
        \o (IF (db.schema \/ create) /\ with_table THEN <<"has_table">> ELSE <<>>)

\* download_codes of src/codes.py, lines 118-119
codes_py_download_to_csv(flags, fs, fetched) ==
    IF fetched.exc # "none"
    THEN [exc |-> fetched.exc, rows |-> <<>>, files |-> fs, log |-> fetched.log]
    ELSE IF "to_csv" \in flags
    THEN [exc |-> "none", rows |-> fetched.rows,
          files |-> [fs EXCEPT !.csv = CsvFile(to_csv(fetched.rows))],
          log |-> Append(fetched.log, "to_csv codes.csv")]
    ELSE [exc |-> "none", rows |-> fetched.rows, files |-> fs, log |-> fetched.log]

\* download_codes of src/codes.py, lines 114-117: the frames of the three
\* endpoints concatenated in the order fetched, or the first exception
codes_py_download_loop(tws, otc, fut) ==
    IF tws.exc # "none" THEN RaisedAfter(tws.exc, Requests(1))
    ELSE IF otc.exc # "none" THEN RaisedAfter(otc.exc, Requests(2))
    ELSE IF fut.exc # "none" THEN RaisedAfter(fut.exc, Requests(3))
    ELSE [exc |-> "none", index |-> "RangeIndex",
          rows |-> pd_concat(pd_concat(pd_concat(<<>>, tws.rows), otc.rows), fut.rows),
          log |-> Requests(3)]

\* to_sql, were it called with if_exists="append"
codes_py_to_sql_append(rows, db) == [db EXCEPT !.exists = TRUE, !.rows = db.rows \o rows]

\* df.to_sql(table_name, conn, schema=SQL_SCHEMA, index=False,
\* if_exists="replace"): the server afterwards
codes_py_to_sql(rows, db) == [db EXCEPT !.exists = TRUE, !.rows = rows]

\* ALTER TABLE ... ADD PRIMARY KEY (sc) fails on two rows of one symbol
duplicate_entry(rows) ==
    \E h, j \in 1..Len(rows) : h # j /\ Symbol(rows[h]) = Symbol(rows[j])

\* ALTER TABLE ... CHANGE COLUMN sc ... NOT NULL, ADD PRIMARY KEY (sc), lines
\* 130-137. On two rows of one symbol it fails and the table stays as to_sql
\* wrote it. When it succeeds the table is keyed on sc: InnoDB, the engine the
\* server gives a table by default, stores the rows by the key, and the SELECT
\* without ORDER BY of get reads them in ascending sc. rows is the order read
codes_py_add_primary_key(db) ==
    IF duplicate_entry(db.rows) THEN [exc |-> "IntegrityError", db |-> db]
    ELSE [exc |-> "none", db |-> [db EXCEPT !.rows = sort_by_symbol(db.rows)]]

\* download_codes of src/codes.py, lines 121-137, on a server that is up
codes_py_download_connected(db, st, altered) ==
    [exc |-> altered.exc, rows |-> st.rows, files |-> st.files, mariadb |-> altered.db,
     log |-> st.log \o <<"connect">> \o verify_database_log(db, FALSE, TRUE)
                \o <<"to_sql", "ALTER TABLE">>]

\* download_codes of src/codes.py, lines 120-137; the table is replaced and its
\* rows committed before ALTER TABLE is executed
codes_py_download_to_sql(flags, db, st) ==
    IF st.exc # "none" \/ "to_sql" \notin flags
    THEN [exc |-> st.exc, rows |-> st.rows, files |-> st.files, mariadb |-> db, log |-> st.log]
    ELSE IF ~db.up
    THEN [exc |-> "OperationalError", rows |-> <<>>, files |-> st.files, mariadb |-> db,
          log |-> Append(st.log, "connect")]
    ELSE codes_py_download_connected(db, st,
             codes_py_add_primary_key(
                 codes_py_to_sql(st.rows, verify_database(db, FALSE, TRUE).db)))

\* download_codes of src/codes.py, lines 138-140
codes_py_download_return(flags, st) ==
    [exc |-> st.exc,
     value |-> IF st.exc = "none" /\ "output" \in flags
               THEN [index |-> "RangeIndex", rows |-> st.rows] ELSE NoValue,
     files |-> st.files, mariadb |-> st.mariadb, log |-> st.log]

\* download_codes(to_csv, to_sql, output) of src/codes.py when the endpoints
\* answer pgs: flags holds the names of the arguments that are True
codes_py_download_codes(pgs, flags, fs, db) ==
    codes_py_download_return(flags,
        codes_py_download_to_sql(flags, db,
            codes_py_download_to_csv(flags, fs,
                codes_py_download_loop(codes_py_crawl_from_url(TWS_URL, pgs[1]),
                                       codes_py_crawl_from_url(OTC_URL, pgs[2]),
                                       codes_py_crawl_from_url(FUTURE_URL, pgs[3])))))

\* get of src/codes.py, lines 167-172: codes after the cache tier
codes_py_get_cache(cat, flags, fs) ==
    IF "cache" \in flags /\ fs.cache[cat].exists
    THEN [exc |-> "none",
          codes |-> [index |-> "RangeIndex", rows |-> read_csv(fs.cache[cat].rows)],
          log |-> <<"read_csv cache">>]
    ELSE [exc |-> "none", codes |-> NoValue, log |-> <<>>]

\* get of src/codes.py, lines 174-188: codes after the SQL tier. The exception of
\* a connection that fails meets "except sqlalchemy.ExceptionContext", a class
\* that is no exception class, and Python raises TypeError in its place
codes_py_get_sql(cat, flags, db, st) ==
    IF "from_csv" \in flags \/ st.codes # NoValue THEN st
    ELSE IF ~db.up
    THEN [exc |-> "TypeError", codes |-> NoValue, log |-> Append(st.log, "connect")]
    ELSE IF verify_database(db, TRUE, FALSE).ok
    THEN [exc |-> "none",
          codes |-> [index |-> "RangeIndex",
                     rows |-> SelectSeq(db.rows, LAMBDA r :
                                  r[ColumnIndex("ca")] = PyStr(CodesCategory[cat]))],
          log |-> st.log \o <<"connect">> \o verify_database_log(db, TRUE, FALSE)
                     \o <<"SELECT">>]
    ELSE [st EXCEPT !.log = st.log \o <<"connect">> \o verify_database_log(db, TRUE, FALSE)]

\* get of src/codes.py, lines 190-196: codes after the CSV tier
codes_py_get_csv(cat, fs, st) ==
    IF st.exc # "none" \/ (st.codes # NoValue /\ Len(st.codes.rows) > 0) THEN st
    ELSE IF ~fs.csv.exists
    THEN [exc |-> "FileNotFoundError", codes |-> NoValue,
          log |-> Append(st.log, "read_csv codes.csv")]
    ELSE [exc |-> "none",
          codes |-> [index |-> "RangeIndex",
                     rows |-> where_dropna(read_csv(fs.csv.rows), CodesCategory[cat])],
          log |-> Append(st.log, "read_csv codes.csv")]

\* codes[sc] when details is False
codes_py_get_details(flags, codes) ==
    IF "details" \in flags THEN codes
    ELSE [index |-> "Series", rows |-> [j \in 1..Len(codes.rows) |-> <<Symbol(codes.rows[j])>>]]

\* get of src/codes.py, lines 197-205
codes_py_get_return(cat, flags, fs, db, st) ==
    IF st.exc # "none"
    THEN [exc |-> st.exc, value |-> NoValue, files |-> fs, mariadb |-> db, log |-> st.log]
    ELSE IF Len(st.codes.rows) = 0
    THEN [exc |-> "LookupError", value |-> NoValue, files |-> fs, mariadb |-> db,
          log |-> st.log]
    ELSE IF ~fs.cache_dir
    THEN [exc |-> "OSError", value |-> NoValue, files |-> fs, mariadb |-> db,
          log |-> Append(st.log, "to_csv cache")]
    ELSE [exc |-> "none", value |-> codes_py_get_details(flags, st.codes),
          files |-> [fs EXCEPT !.cache[cat] = CsvFile(to_csv(st.codes.rows))],
          mariadb |-> db, log |-> Append(st.log, "to_csv cache")]

\* get(category, cache, from_csv, details) of src/codes.py: flags holds the
\* names of the arguments that are True
codes_py_get(cat, flags, fs, db) ==
    codes_py_get_return(cat, flags, fs, db,
        codes_py_get_csv(cat, fs,
            codes_py_get_sql(cat, flags, db,
                codes_py_get_cache(cat, flags, fs))))

-----------------------------------------------------------------------------
(* The pages of SpecCrawl *)

\* the first <tr> of every page: the column titles
TitleRow == <<<<"t">>, <<"t">>>>

SymbolCells ==
    { <<"2", "3", FW, "T">>,        \* 23, U+3000, T
      <<"9", " ", "1", FW, "X">>,   \* "9 1", U+3000, X
      <<"5", FW, "A", FW, "B">>,    \* two separators
      <<"2", "3">> }                \* no separator

HeaderCells ==
    { <<" ", "U+80A1", "U+7968", FW>>,   \* STOCK, padded
      <<"E", "T", "F">>,
      <<"Z">> }                          \* no category of the enumeration

\* the cells after the first: ISIN code, dates, market, industry, CFI, notes
Rest(n) == [j \in 1..n |-> <<"c", CASE j = 1 -> "1" [] j = 2 -> "2" [] j = 3 -> "3"
                                    [] j = 4 -> "4" [] j = 5 -> "5" [] OTHER -> "6">>]

CrawlRows ==
    {<<h>> : h \in HeaderCells}
        \cup {<<s>> \o Rest(6) : s \in SymbolCells}     \* a listed/OTC data row
        \cup {<<s>> \o Rest(4) : s \in {<<"2", "3", FW, "T">>}}   \* an index row
        \cup {<<>>}                                      \* a <tr> without <td>

RECURSIVE SeqsUpTo(_, _)
SeqsUpTo(S, n) ==
    IF n = 0 THEN {<<>>}
    ELSE LET shorter == SeqsUpTo(S, n - 1)
         IN  shorter \cup {Append(q, x) : q \in {r \in shorter : Len(r) = n - 1}, x \in S}

\* a response: its status, whether the document holds a <table class="h4">, and
\* that table's <tr> rows, each the texts of its <td> cells
CrawlPages ==
    [status_code : {200}, h4 : {TRUE},
     table : {<<TitleRow>> \o b : b \in SeqsUpTo(CrawlRows, MaxRows)}]
        \cup [status_code : {200}, h4 : {TRUE, FALSE}, table : {<<>>}]
        \cup [status_code : {404}, h4 : {TRUE}, table : {<<TitleRow>>}]

NoFrame == [exc |-> "none", index |-> "RangeIndex", rows |-> <<>>]
NoCall == [op |-> "none", category |-> "", flags |-> {}, exc |-> "none", value |-> NoValue,
           log |-> <<>>]
NoPages == <<>>

CrawlInit ==
    /\ url \in {TWS_URL, OTC_URL, FUTURE_URL}
    /\ html \in CrawlPages
    /\ pc = "request"
    /\ i = 0
    /\ category = PyNone
    /\ datasets = <<>>
    /\ crawled = NoFrame
    /\ sqlite = NoTwse
    /\ mariadb = NoMariadb
    /\ files = NoFiles
    /\ ret = NoCall
    /\ pages = NoPages
    /\ prev = [sqlite |-> NoTwse, mariadb |-> NoMariadb, files |-> NoFiles]

\* requests.get(url), the status check, soup.find, category's first value
Request ==
    /\ pc = "request"
    /\ IF html.status_code # 200
       THEN /\ pc' = "raised"
            /\ crawled' = [NoFrame EXCEPT !.exc = "ConnectionError"]
            /\ UNCHANGED <<category>>
       ELSE IF ~html.h4
       THEN /\ pc' = "raised"
            /\ crawled' = [NoFrame EXCEPT !.exc = "AttributeError"]
            /\ category' = initial_category(url)
       ELSE /\ pc' = "rows"
            /\ category' = initial_category(url)
            /\ UNCHANGED crawled
    /\ UNCHANGED <<url, html, i, datasets>>
    /\ UNCHANGED store_vars

\* one iteration of the loop over table.find_all("tr")[1:]
Row ==
    /\ pc = "rows"
    /\ i < Len(body_rows(html.table))
    /\ LET r == row_step(url, body_rows(html.table)[i + 1], category)
       IN  IF r.exc # "none"
           THEN /\ pc' = "raised"
                /\ crawled' = [NoFrame EXCEPT !.exc = r.exc]
                /\ UNCHANGED <<i, category, datasets>>
           ELSE /\ i' = i + 1
                /\ category' = r.category
                /\ datasets' = datasets \o r.emit
                /\ UNCHANGED <<pc, crawled>>
    /\ UNCHANGED <<url, html>>
    /\ UNCHANGED store_vars

\* return pd.DataFrame(datasets, columns=headings)
Frame ==
    /\ pc = "rows"
    /\ i = Len(body_rows(html.table))
    /\ crawled' = pd_DataFrame(datasets, get_columns_short)
    /\ pc' = IF crawled'.exc = "none" THEN "returned" ELSE "raised"
    /\ UNCHANGED <<url, html, i, category, datasets>>
    /\ UNCHANGED store_vars

CrawlNext == Request \/ Row \/ Frame

SpecCrawl == CrawlInit /\ [][CrawlNext]_vars

-----------------------------------------------------------------------------
(* Spec: download_codes, get and main of src/twse_codes/codes.py on one database *)

StockHeader == <<CodesCategory.STOCK>>
EtfHeader == <<CodesCategory.ETF>>
DataRow(symbol, name) == <<symbol \o <<FW>> \o name>> \o Rest(6)
IndexRow(symbol, name) == <<symbol \o <<FW>> \o name>> \o Rest(4)

\* a listed or OTC page: no rows, or a category row and the data rows under it
Bodies(header, row, n) == {<<>>} \cup {<<header>> \o d : d \in SeqsUpTo({row}, n)}

\* the answers of one endpoint: 200 with a table of the bodies, 200 without a
\* table of class h4, or 503
PagesOf(bodies) ==
    [status_code : {200}, h4 : {TRUE}, table : {<<TitleRow>> \o b : b \in bodies}]
        \cup [status_code : {200}, h4 : {FALSE}, table : {<<>>}]
        \cup [status_code : {503}, h4 : {TRUE}, table : {<<>>}]

\* the listed page lists 23 under STOCK, the OTC page lists 23 under ETF, and
\* the index page lists 11
TwsPages == PagesOf(Bodies(StockHeader, DataRow(<<"2", "3">>, <<"T">>), MaxDataRows))
OtcPages == PagesOf(Bodies(EtfHeader, DataRow(<<"2", "3">>, <<"O">>), MaxDataRows))
FuturePages == PagesOf(SeqsUpTo({IndexRow(<<"1", "1">>, <<"I">>)}, MaxDataRows))

Responses == TwsPages \X OtcPages \X FuturePages

\* the category arguments of get
Categories == {"ALL", "STOCK", "ETF", "INDEX", "BOND"}

Idle ==
    /\ url = TWS_URL
    /\ html = [status_code |-> 200, h4 |-> TRUE, table |-> <<>>]
    /\ pc = "idle"
    /\ i = 0
    /\ category = PyNone
    /\ datasets = <<>>
    /\ crawled = NoFrame

\* a row of the table twse as to_sql stores it: nine texts
StoredRow(symbol, name, cat) ==
    <<PyStr(symbol), PyStr(name), PyStr(cat)>> \o [j \in 1..6 |-> PyStr(Rest(6)[j])]

\* twse_codes.db as a call finds it. The file outlives the process: it is new
\* (no table twse), or holds the table from before
Databases ==
    {NoTwse} \cup
    [exists : {TRUE},
     rows : { <<>>,
              <<StoredRow(<<"2", "3">>, <<"T">>, CodesCategory.STOCK)>>,
              <<StoredRow(<<"2", "3">>, <<"O">>, CodesCategory.ETF),
                StoredRow(<<"1", "1">>, <<"I">>, CodesCategory.INDEX)>>,
              <<StoredRow(<<"2", "3">>, <<"T">>, CodesCategory.STOCK),
                StoredRow(<<"2", "3">>, <<"O">>, CodesCategory.ETF),
                StoredRow(<<"1", "1">>, <<"I">>, CodesCategory.INDEX)>> }]

Init ==
    /\ Idle
    /\ sqlite \in Databases
    /\ mariadb = NoMariadb
    /\ files = NoFiles
    /\ ret = NoCall
    /\ pages = NoPages
    /\ prev = [sqlite |-> sqlite, mariadb |-> NoMariadb, files |-> NoFiles]

\* the state after a call that ended as out
Called(op, cat, flags, out) ==
    /\ sqlite' = out.table
    /\ ret' = [op |-> op, category |-> cat, flags |-> flags, exc |-> out.exc,
               value |-> out.value, log |-> out.log]
    /\ prev' = [sqlite |-> sqlite, mariadb |-> mariadb, files |-> files]
    /\ UNCHANGED <<crawl_vars, mariadb, files>>

\* download_codes(output=True)
Download ==
    \E pgs \in Responses :
        /\ Called("download_codes", "", {"output"}, download_codes(pgs, sqlite))
        /\ pages' = pgs

\* get(category)
Get ==
    \E cat \in Categories :
        \E pgs \in IF get_downloads(cat, sqlite) THEN Responses ELSE {NoPages} :
            /\ Called("get", cat, {}, get(cat, pgs, sqlite))
            /\ pages' = pgs

\* python codes.py [--download] [--get]
Main ==
    \E args \in SUBSET {"download", "get"} :
        \E pgs \in IF main_downloads(args, sqlite) THEN Responses ELSE {NoPages} :
            /\ Called("main", "", args, main(args, pgs, sqlite))
            /\ pages' = pgs

Next == Download \/ Get \/ Main

Spec == Init /\ [][Next]_vars

-----------------------------------------------------------------------------
(* SpecScript: download_codes and get of src/codes.py on one working directory
   and one MariaDB server *)

Page(body) == [status_code |-> 200, h4 |-> TRUE, table |-> <<TitleRow>> \o body]

\* the listed page with 23 under STOCK, or with 05 under ETF; the OTC page with 23
\* under ETF; the index page with 11; a page without rows; an endpoint that is down
ListedPage == Page(<<StockHeader, DataRow(<<"2", "3">>, <<"T">>)>>)
ListedPage05 == Page(<<EtfHeader, DataRow(<<"0", "5">>, <<"E">>)>>)
OtcPage == Page(<<EtfHeader, DataRow(<<"2", "3">>, <<"O">>)>>)
IndexPage == Page(<<IndexRow(<<"1", "1">>, <<"I">>)>>)
EmptyPage == Page(<<>>)
DownPage == [status_code |-> 503, h4 |-> TRUE, table |-> <<>>]

\* what the three endpoints answer during one download_codes: every page with
\* its row, 23 listed twice; 23 and 11; one ETF row and nothing else; the OTC
\* endpoint down
ScriptResponses ==
    { <<ListedPage, OtcPage, IndexPage>>,
      <<ListedPage, EmptyPage, IndexPage>>,
      <<ListedPage05, EmptyPage, EmptyPage>>,
      <<ListedPage, DownPage, IndexPage>> }

\* the category arguments of get
ScriptCategories == {"STOCK", "ETF"}

ScriptInit ==
    /\ Idle
    /\ sqlite = NoTwse
    /\ mariadb \in {[NoMariadb EXCEPT !.up = u] : u \in BOOLEAN}
    /\ files \in {[NoFiles EXCEPT !.cache_dir = d] : d \in BOOLEAN}
    /\ ret = NoCall
    /\ pages = NoPages
    /\ prev = [sqlite |-> NoTwse, mariadb |-> mariadb, files |-> files]

\* the state after a call that ended as out
ScriptCalled(op, cat, flags, out) ==
    /\ files' = out.files
    /\ mariadb' = out.mariadb
    /\ ret' = [op |-> op, category |-> cat, flags |-> flags, exc |-> out.exc,
               value |-> out.value, log |-> out.log]
    /\ prev' = [sqlite |-> sqlite, mariadb |-> mariadb, files |-> files]
    /\ UNCHANGED <<crawl_vars, sqlite>>

\* download_codes(to_csv, to_sql, output=...)
ScriptDownload ==
    \E pgs \in ScriptResponses :
        \E flags \in SUBSET {"to_csv", "to_sql", "output"} :
            /\ ScriptCalled("download_codes", "", flags,
                            codes_py_download_codes(pgs, flags, files, mariadb))
            /\ pages' = pgs

\* get(category, cache, from_csv, details=...)
ScriptGet ==
    \E cat \in ScriptCategories :
        \E flags \in SUBSET {"cache", "from_csv", "details"} :
            /\ ScriptCalled("get", cat, flags, codes_py_get(cat, flags, files, mariadb))
            /\ pages' = NoPages

\* between two calls the server goes down or comes back
ServerUpDown ==
    /\ mariadb' = [mariadb EXCEPT !.up = ~mariadb.up]
    /\ ret' = NoCall
    /\ pages' = NoPages
    /\ prev' = [sqlite |-> sqlite, mariadb |-> mariadb', files |-> files]
    /\ UNCHANGED <<crawl_vars, sqlite, files>>

\* verify_database(conn, table_name, create) called on its own, on a connection
\* to the server: with_table is table_name is not None
ScriptVerifyDatabase ==
    /\ mariadb.up
    /\ \E with_table \in BOOLEAN, create \in BOOLEAN :
          ScriptCalled("verify_database", "",
              {a \in {"table_name", "create"} :
                  (a = "table_name" /\ with_table) \/ (a = "create" /\ create)},
              [exc |-> "none",
               value |-> [index |-> IF verify_database(mariadb, with_table, create).ok
                                    THEN "True" ELSE "False",
                          rows |-> <<>>],
               files |-> files,
               mariadb |-> verify_database(mariadb, with_table, create).db,
               log |-> verify_database_log(mariadb, with_table, create)])
    /\ pages' = NoPages

ScriptNext == ScriptDownload \/ ScriptGet \/ ServerUpDown \/ ScriptVerifyDatabase

SpecScript == ScriptInit /\ [][ScriptNext]_vars

-----------------------------------------------------------------------------
(* Properties of download_codes and get of src/twse_codes/codes.py, checked
   under Spec *)

\* C7 as claimed: all-or-nothing fetch. A download_codes during which an endpoint
\* answers with a status other than 200 raises ConnectionError, returns no frame,
\* and leaves the table and every file as they were.
C7_AllOrNothingFetch ==
    /\ ret.op = "download_codes"
    /\ \E k \in 1..3 : pages[k].status_code # 200
    => /\ ret.exc = "ConnectionError"
       /\ ret.value = NoValue
       /\ sqlite = prev.sqlite
       /\ files = prev.files
       /\ mariadb = prev.mariadb

\* C8 as claimed: a get that finds no row of the category in the table and whose
\* re-fetch finds three pages without a row fails with the error get itself
\* raises for "No codes found.", and writes no file.
C8_EmptyEverywhereIsLookupError ==
    /\ ret.op = "get"
    /\ pages # NoPages
    /\ \A k \in 1..3 :
          pages[k].status_code = 200 /\ pages[k].h4 /\ body_rows(pages[k].table) = <<>>
    => /\ ret.exc = "FileExistsError"
       /\ files = prev.files

\* the elements of a sequence
Range(q) == {q[k] : k \in 1..Len(q)}

\* C12 as claimed: the frame get("ALL") returns holds one record for each symbol,
\* every record of it is a record of the table in one of the eleven categories,
\* and every symbol the table holds in one of the eleven categories is in it.
C12_AllIsUnionDeduplicatedBySymbol ==
    ret.op = "get" /\ ret.category = "ALL" /\ ret.exc = "none" =>
        /\ \A h, k \in 1..Len(ret.value.rows) :
              Symbol(ret.value.rows[h]) = Symbol(ret.value.rows[k]) => h = k
        /\ \A r \in Range(ret.value.rows) :
              \E c \in member_names : r \in Range(query(c, prev.sqlite).rows)
        /\ \A c \in member_names : \A r \in Range(query(c, prev.sqlite).rows) :
              \E q \in Range(ret.value.rows) : Symbol(q) = Symbol(r)

\* C13: unrecognized category input. A get whose category is neither "ALL" nor
\* the name of a member of CodesCategory raises TypeError before anything else is
\* done: no SELECT, no request to an endpoint, no write to the table or to a file.
C13_UnknownCategoryRaisesAtOnce ==
    ret.op = "get" /\ ret.category \notin member_names \cup {"ALL"} =>
        /\ ret.exc = "TypeError"
        /\ ret.value = NoValue
        /\ ret.log = <<>>
        /\ pages = NoPages
        /\ sqlite = prev.sqlite
        /\ files = prev.files
        /\ mariadb = prev.mariadb

\* get("BOND") has raised on a database whose table is there and holds no row, where
\* a recognized category would have gone on to SELECT and to download_codes
C13_Witness ==
    /\ ret.op = "get"
    /\ ret.category = "BOND"
    /\ ret.exc = "TypeError"
    /\ prev.sqlite.exists
    /\ prev.sqlite.rows = <<>>

\* the three endpoints were requested and each answered 200 with a table of class h4
AllFetched ==
    /\ pages # NoPages
    /\ \A k \in 1..3 : pages[k].status_code = 200 /\ pages[k].h4

\* the rows with more than one cell the three pages hold after the title row
FetchedDataRows ==
    {<<k, j>> \in (1..3) \X (1..(MaxDataRows + 2)) :
        j <= Len(body_rows(pages[k].table)) /\ Len(body_rows(pages[k].table)[j]) > 1}

\* C14 as claimed: a download_codes whose three pages arrive and hold no record,
\* so that to_sql reports no row written, still returns its frame to the caller:
\* no exception, a frame indexed by symbol with the records fetched, here none.
C14_RefreshReturnsWhateverThePersistence ==
    ret.op = "download_codes" /\ AllFetched /\ FetchedDataRows = {} =>
        /\ ret.exc = "none"
        /\ ret.value = [index |-> "sc", rows |-> <<>>]

\* C15 as claimed: a get that finds no row of the category in the table requests
\* the three endpoints and, when they answer with pages holding records, returns
\* the frame of download_codes; a get that finds a row issues its SELECT and
\* requests nothing.
C15_RefetchAnswersWhenNoTierHasRows ==
    /\ ret.op = "get"
    /\ ret.category \in member_names \cup {"ALL"}
    /\ prev.sqlite.exists
    => IF Len(where(ret.category, prev.sqlite.rows)) = 0
       THEN /\ pages # NoPages
            /\ Len(ret.log) > 1
            /\ (AllFetched /\ FetchedDataRows # {} =>
                    /\ ret.exc = "none"
                    /\ ret.value.index = "sc"
                    /\ Len(ret.value.rows) = Cardinality(FetchedDataRows))
       ELSE /\ pages = NoPages
            /\ ret.log = <<"SELECT">>

\* get of src/twse_codes/codes.py calls download_codes only when its SELECT gave
\* no row: a get that finds a row of the category requests no endpoint and leaves
\* the table as it was
RefetchOnlyWhenNoRow ==
    /\ ret.op = "get"
    /\ prev.sqlite.exists
    /\ ret.category \in member_names \cup {"ALL"}
    /\ Len(where(ret.category, prev.sqlite.rows)) > 0
    => /\ pages = NoPages
       /\ ret.log = <<"SELECT">>
       /\ ret.exc = "none"
       /\ sqlite = prev.sqlite

\* the records the three pages of the last call hold, as the rows of the pages
\* read them: none from an endpoint that did not answer with a table
Listed ==
    IF pages = NoPages THEN <<>>
    ELSE codes_py_crawl_from_url(_TWS_URL, pages[1]).rows
            \o codes_py_crawl_from_url(_OTC_URL, pages[2]).rows
            \o codes_py_crawl_from_url(_FUTURE_URL, pages[3]).rows

\* the rows of a frame are all of the category
OfCategory(rows, cat) ==
    \A r \in Range(rows) : r[ColumnIndex("ca")] = PyStr(CodesCategory[cat])

\* C20: every record a get(c) for a category c returns is of category c, on
\* every path of get: the frame of the SELECT with WHERE ca = '<value>', and the
\* frame of download_codes when the SELECT gave no row.
C20_ReturnedRecordsAreOfTheCategory ==
    ret.op = "get" /\ ret.category \in member_names /\ ret.exc = "none" =>
        OfCategory(ret.value.rows, ret.category)

\* a get(c) has returned records from a table that also holds a row of another
\* category
C20_Witness ==
    /\ ret.op = "get"
    /\ ret.category \in member_names
    /\ ret.exc = "none"
    /\ Len(ret.value.rows) > 0
    /\ \E r \in Range(prev.sqlite.rows) :
          r[ColumnIndex("ca")] # PyStr(CodesCategory[ret.category])

\* every frame a get(c) of src/twse_codes/codes.py has returned came from the
\* table: no get that went on to download_codes has returned
StoreAnswersInTheCategory ==
    ret.op = "get" /\ ret.category \in member_names /\ ret.exc = "none" =>
        /\ ret.value = query(ret.category, prev.sqlite)
        /\ pages = NoPages

\* a get(c) that found the table without a row of c and went on to download_codes
\* with the three endpoints answering has raised
RefetchNeverAnswers ==
    /\ ret.op = "get"
    /\ ret.category \in member_names
    /\ prev.sqlite.exists
    /\ Len(where(ret.category, prev.sqlite.rows)) = 0
    => ret.exc # "none"

\* C17 as claimed: main() run without --download and without --get queries ALL
\* and prints the frame: on a table that holds rows it issues the SELECT of
\* get("ALL"), prints its result and ends without an exception.
C17_NoFlagsPrintsAllQuery ==
    /\ ret.op = "main"
    /\ ret.flags = {}
    /\ prev.sqlite.exists
    /\ Len(prev.sqlite.rows) > 0
    => /\ ret.exc = "none"
       /\ ret.value = query("ALL", prev.sqlite)
       /\ ret.log = <<"SELECT", "print">>

-----------------------------------------------------------------------------
(* Properties of download_codes of src/codes.py, checked under SpecScript *)

\* the rows an endpoint's page parses to, none when the fetch or parse fails
Parsed(u, page) == codes_py_crawl_from_url(u, page).rows

\* the records of the fetch of the last download_codes, in the order fetched
Fetched ==
    Parsed(TWS_URL, pages[1]) \o Parsed(OTC_URL, pages[2]) \o Parsed(FUTURE_URL, pages[3])

\* the last call was a download_codes that ran to its end
Refreshed == ret.op = "download_codes" /\ ret.exc = "none"

Symbols(rows) == [k \in 1..Len(rows) |-> Symbol(rows[k]).s]

\* C4: forced refresh replace semantics. After a download_codes(to_sql=True) that
\* succeeded, the table holds exactly the records of its fetch, each once, read
\* in ascending order of the key sc: no row the table held before is left unless
\* the fetch has it too.
C4_RefreshReplaces ==
    Refreshed /\ "to_sql" \in ret.flags =>
        /\ mariadb.schema
        /\ mariadb.exists
        /\ ~duplicate_entry(Fetched)
        /\ Len(mariadb.rows) = Len(Fetched)
        /\ Range(mariadb.rows) = Range(Fetched)
        /\ mariadb.rows = sort_by_symbol(Fetched)

\* a refresh that succeeded on a table holding, from an earlier refresh, a row the
\* new fetch lacks
C4_Witness ==
    /\ Refreshed
    /\ "to_sql" \in ret.flags
    /\ prev.mariadb.exists
    /\ ~duplicate_entry(prev.mariadb.rows)
    /\ \E k \in 1..Len(prev.mariadb.rows) :
          \A h \in 1..Len(mariadb.rows) : mariadb.rows[h] # prev.mariadb.rows[k]

\* C5 as claimed: the frame a download_codes returns holds one record for each
\* symbol, and of a symbol both the listed and the OTC page list it holds the
\* record of the OTC page, the one fetched later.
C5_OneRecordPerSymbol ==
    Refreshed /\ "output" \in ret.flags =>
        /\ \A h, k \in 1..Len(ret.value.rows) :
              Symbol(ret.value.rows[h]) = Symbol(ret.value.rows[k]) => h = k
        /\ \A h \in 1..Len(Parsed(TWS_URL, pages[1])) :
              (\E k \in 1..Len(Parsed(OTC_URL, pages[2])) :
                    Symbol(Parsed(OTC_URL, pages[2])[k]) = Symbol(Parsed(TWS_URL, pages[1])[h]))
                 => \A k \in 1..Len(ret.value.rows) :
                        ret.value.rows[k] # Parsed(TWS_URL, pages[1])[h]

\* C6 as claimed: the frame a download_codes returns, and the table it writes,
\* are in ascending order of symbol.
C6_SortedBySymbol ==
    Refreshed =>
        /\ \A k \in 1..(Len(ret.value.rows) - 1) :
              ~str_lt(Symbols(ret.value.rows)[k + 1], Symbols(ret.value.rows)[k])
        /\ ("to_sql" \in ret.flags =>
              \A k \in 1..(Len(mariadb.rows) - 1) :
                  ~str_lt(Symbols(mariadb.rows)[k + 1], Symbols(mariadb.rows)[k]))

\* the table of src/codes.py after a download_codes(to_sql=True) that succeeded is
\* read in ascending order of symbol, by its primary key, while the frame the call
\* returns is in the order fetched
ScriptTableInKeyOrder ==
    Refreshed /\ "to_sql" \in ret.flags =>
        /\ \A k \in 1..(Len(mariadb.rows) - 1) :
              str_lt(Symbols(mariadb.rows)[k], Symbols(mariadb.rows)[k + 1])
        /\ ("output" \in ret.flags => ret.value.rows = Fetched)

\* download_codes of src/codes.py is all-or-nothing: when an endpoint answers with
\* a status other than 200 it raises ConnectionError, returns no frame, and leaves
\* the server and every file as they were
ScriptAllOrNothingFetch ==
    /\ ret.op = "download_codes"
    /\ \E k \in 1..3 : pages[k].status_code # 200
    => /\ ret.exc = "ConnectionError"
       /\ ret.value = NoValue
       /\ files = prev.files
       /\ mariadb = prev.mariadb

\* get of src/codes.py has no re-fetch tier: it requests no endpoint, and when
\* no tier gives a row it raises
ScriptGetNeverFetches ==
    ret.op = "get" =>
        /\ \A j \in 1..Len(ret.log) : ret.log[j] \notin Range(Requests(3))
        /\ mariadb.rows = prev.mariadb.rows
        /\ files.csv = prev.files.csv

-----------------------------------------------------------------------------
(* Properties of get of src/codes.py, checked under SpecScript *)

\* the cache file of the category of the last call, as it was when the call began
CacheBefore == prev.files.cache[ret.category]

\* the rows of codes.csv in the category of the last call, as the CSV tier
\* computes them from the file as it was when the call began
CsvRowsBefore == where_dropna(read_csv(prev.files.csv.rows), CodesCategory[ret.category])

\* the content of the cache file as the call found it: its lines, or their
\* symbol fields when details is False
CachedContent ==
    IF "details" \in ret.flags THEN CacheBefore.rows
    ELSE [j \in 1..Len(CacheBefore.rows) |-> <<CacheBefore.rows[j][ColumnIndex("sc")]>>]

\* C2 as claimed: tiered resolution order. A get(c) with cache=True that finds the
\* cache file of c holding at least one record returns the content of that file
\* (the records compared as the text to_csv writes for them), opens no connection
\* to the server and issues no SELECT.
C2_CacheAnswersWithCachedContent ==
    /\ ret.op = "get"
    /\ "cache" \in ret.flags
    /\ CacheBefore.exists
    /\ Len(CacheBefore.rows) > 0
    => /\ ret.exc = "none"
       /\ to_csv(ret.value.rows) = CachedContent
       /\ \A j \in 1..Len(ret.log) : ret.log[j] \notin {"connect", "has_schema", "has_table", "SELECT"}

\* the store is left alone: a get(c) with cache=True that finds the cache file
\* of c holding at least one record opens no connection, issues no SELECT and
\* leaves the server as it was
ScriptCacheSkipsStore ==
    /\ ret.op = "get"
    /\ "cache" \in ret.flags
    /\ CacheBefore.exists
    /\ Len(CacheBefore.rows) > 0
    => /\ ret.exc = "none"
       /\ \A j \in 1..Len(ret.log) : ret.log[j] \notin {"connect", "has_schema", "has_table", "SELECT"}
       /\ mariadb = prev.mariadb

\* C3 as claimed: a get(c) that finds no cache file of c and whose connection to
\* the server fails does not fail: it returns the rows of codes.csv in category c
\* that have a symbol, and the cache file of c then holds those rows.
C3_ConnectionFailureFallsThrough ==
    /\ ret.op = "get"
    /\ "cache" \in ret.flags
    /\ "from_csv" \notin ret.flags
    /\ ~CacheBefore.exists
    /\ ~prev.mariadb.up
    /\ prev.files.cache_dir
    /\ prev.files.csv.exists
    /\ Len(CsvRowsBefore) > 0
    => /\ ret.exc = "none"
       /\ ret.value = codes_py_get_details(ret.flags,
                          [index |-> "RangeIndex", rows |-> CsvRowsBefore])
       /\ files.cache[ret.category] = CsvFile(to_csv(CsvRowsBefore))

\* the last two calls were get(c, details=True) for one category c, the first
\* returned, and the second had cache=True
QueriedAgain ==
    /\ ret.op = "get" /\ ret.exc = "none" /\ "details" \in ret.flags
    /\ ret'.op = "get" /\ ret'.category = ret.category
    /\ ret'.flags = {"cache", "details"}

\* C19 as claimed: write-through and staleness. When a get(c) has returned, the
\* cache file of c holds the records it returned, and a get(c) that follows
\* returns those same records (compared as the text to_csv writes for them),
\* without connecting to the server, and writes the cache file of no other
\* category.
C19_CacheServesTheSameRecords ==
    [][QueriedAgain =>
          /\ files.cache[ret.category] = CsvFile(to_csv(ret.value.rows))
          /\ ret'.exc = "none"
          /\ to_csv(ret'.value.rows) = to_csv(ret.value.rows)
          /\ \A j \in 1..Len(ret'.log) : ret'.log[j] \notin {"connect", "has_schema", "has_table", "SELECT"}
          /\ \A c \in member_names \ {ret.category} : files'.cache[c] = files.cache[c]]_vars

\* write-through of get of src/codes.py: a get(c) that has returned left in the
\* cache file of c the records it answered with, and no call writes the cache
\* file of a category other than its own
ScriptWriteThrough ==
    /\ \A c \in member_names : c # ret.category => files.cache[c] = prev.files.cache[c]
    /\ (ret.op = "get" /\ ret.exc = "none" =>
          /\ files.cache[ret.category].exists
          /\ Len(files.cache[ret.category].rows) = Len(ret.value.rows)
          /\ ("details" \in ret.flags =>
                files.cache[ret.category] = CsvFile(to_csv(ret.value.rows))))

\* staleness of get of src/codes.py: a get(c, cache=True) that finds a cache file
\* with a record answers from it whatever the table holds, and the records it
\* returns write back the file they were read from
ScriptCacheIsTrusted ==
    /\ ret.op = "get"
    /\ "cache" \in ret.flags
    /\ CacheBefore.exists /\ Len(CacheBefore.rows) > 0
    => /\ ret.exc = "none"
       /\ ret.log = <<"read_csv cache", "to_csv cache">>
       /\ to_csv(read_csv(files.cache[ret.category].rows)) = files.cache[ret.category].rows

-----------------------------------------------------------------------------
(* Properties of _crawl_from_url of src/codes.py, checked under SpecCrawl *)

\* the body rows the loop has completed
processed == SubSeq(body_rows(html.table), 1, i)

\* the positions of the rows with more than one cell, in document order
DataRows(rows) == {j \in 1..Len(rows) : Len(rows[j]) > 1}

\* the position of the k-th row with more than one cell
KthDataRow(rows, k) ==
    CHOOSE j \in DataRows(rows) : Cardinality({m \in DataRows(rows) : m <= j}) = k

\* the trimmed text of the last one-cell row before position j, None without one
TagBefore(rows, j) ==
    LET hs == {h \in 1..(j - 1) : Len(rows[h]) = 1}
    IN  IF hs = {} THEN PyNone ELSE PyStr(str_strip(rows[MaxOf(hs)][1]))

\* C1: category carry-over. In a parse of a listed or OTC page, at every point of
\* the loop, the records so far are one per completed multi-cell row, in document
\* order (the k-th record carries the cells of the k-th multi-cell row), each
\* tagged with the trimmed text of the last one-cell row before it; one-cell rows
\* add no record and their trimmed text is the current category; and the frame
\* returned holds exactly these records in this order.
C1_CategoryCarryOver ==
    url # FUTURE_URL /\ pc # "request" =>
        /\ Len(datasets) = Cardinality(DataRows(processed))
        /\ \A k \in 1..Len(datasets) :
              LET j == KthDataRow(processed, k)
              IN  /\ datasets[k][3] = TagBefore(processed, j)
                  /\ SubSeq(datasets[k], 4, Len(datasets[k]))
                        = [c \in 1..(Len(processed[j]) - 1) |-> PyStr(processed[j][c + 1])]
                  /\ datasets[k][2] = PyStr(str_split(processed[j][1], FW)[2])
        /\ (html.status_code = 200 /\ html.h4 => category = TagBefore(processed, i + 1))
        /\ (pc = "returned" =>
              /\ Len(crawled.rows) = Len(datasets)
              /\ \A k \in 1..Len(datasets) :
                    /\ crawled.rows[k][ColumnIndex("ca")] = datasets[k][3]
                    /\ crawled.rows[k][ColumnIndex("cn")] = datasets[k][2])

\* header STOCK, one data row, header ETF, one data row: returned as one record
\* tagged STOCK followed by one tagged ETF
C1_Witness ==
    /\ url = TWS_URL
    /\ pc = "returned"
    /\ i = 4
    /\ Len(processed[1]) = 1 /\ Len(processed[2]) > 1
    /\ Len(processed[3]) = 1 /\ Len(processed[4]) > 1
    /\ Len(crawled.rows) = 2
    /\ crawled.rows[1][ColumnIndex("ca")] = PyStr(CodesCategory.STOCK)
    /\ crawled.rows[2][ColumnIndex("ca")] = PyStr(CodesCategory.ETF)

\* C9 as claimed: every record of the futures/index page has an empty
\* date_of_listing and an empty market_type.
C9_PlaceholdersInListingDateAndMarket ==
    url = FUTURE_URL /\ pc = "returned" =>
        \A k \in 1..Len(crawled.rows) :
            /\ crawled.rows[k][ColumnIndex("dl")] = PyStr(<<>>)
            /\ crawled.rows[k][ColumnIndex("ma")] = PyStr(<<>>)

\* where the two placeholders of the futures loop land: every record that comes
\* from a row of at least three cells has an empty market_type and an empty
\* industry, and its date_of_listing is the text of the row's third cell
FuturePlaceholdersInMarketAndIndustry ==
    url = FUTURE_URL /\ pc = "returned" =>
        /\ Len(crawled.rows) = Len(processed)
        /\ \A k \in 1..Len(crawled.rows) :
              Len(processed[k]) >= 3 =>
                  /\ crawled.rows[k][ColumnIndex("ma")] = PyStr(<<>>)
                  /\ crawled.rows[k][ColumnIndex("si")] = PyStr(<<>>)
                  /\ crawled.rows[k][ColumnIndex("dl")] = PyStr(processed[k][3])
                  /\ crawled.rows[k][ColumnIndex("ca")] = PyStr(CodesCategory.INDEX)

\* C10 as claimed: on a listed or OTC page a multi-cell row met before any one-cell
\* row aborts the parse, so no record is ever emitted with an unset category.
C10_DataRowBeforeHeaderRaises ==
    url # FUTURE_URL =>
        /\ \A k \in 1..Len(datasets) : datasets[k][3] # PyNone
        /\ (pc = "returned" =>
               \A k \in 1..Len(crawled.rows) : crawled.rows[k][ColumnIndex("ca")] # PyNone)

\* the values of the members of Models.CodesCategory
CategoryValues == {PyStr(CodesCategory[m]) : m \in member_names}

\* C11 as claimed: on a listed or OTC page every record that follows a one-cell
\* row carries one of the eleven values of CodesCategory, and a parse that returns
\* has met no one-cell row whose trimmed text is not one of them.
C11_UnrecognizedHeaderRaises ==
    url # FUTURE_URL =>
        /\ \A k \in 1..Len(datasets) :
              datasets[k][3] # PyNone => datasets[k][3] \in CategoryValues
        /\ (pc = "returned" =>
               \A j \in 1..Len(processed) :
                   Len(processed[j]) = 1
                       => PyStr(str_strip(processed[j][1])) \in CategoryValues)

\* the positions of the full-width space in a text
Separators(text) == {p \in 1..Len(text) : text[p] = FW}

\* the first cell of the row the k-th record so far was made from
FirstCell(k) == processed[KthDataRow(processed, k)][1]

\* the text before the first full-width space
BeforeSeparator(text) == SubSeq(text, 1, MinOf(Separators(text)) - 1)

\* the text after the first full-width space, up to the second when there is one
AfterSeparator(text) ==
    LET p == MinOf(Separators(text))
        later == Separators(text) \ {p}
    IN  SubSeq(text, p + 1, IF later = {} THEN Len(text) ELSE MinOf(later) - 1)

\* C16: symbol/name split. On a listed or OTC page every record so far comes from a
\* row whose first cell holds a full-width space; its symbol is the text before the
\* first full-width space with every regular space taken out, so it holds no
\* regular space; its name is the text after that full-width space (all of it
\* when it holds no further full-width space, else up to the next one); and the
\* frame returned holds these in its columns sc and cn.
C16_SymbolNameSplit ==
    url # FUTURE_URL /\ pc # "request" =>
        /\ \A k \in 1..Len(datasets) :
              /\ Separators(FirstCell(k)) # {}
              /\ datasets[k][1].k = "str"
              /\ datasets[k][1].s
                    = SelectSeq(BeforeSeparator(FirstCell(k)), LAMBDA c : c # " ")
              /\ \A p \in 1..Len(datasets[k][1].s) : datasets[k][1].s[p] # " "
              /\ datasets[k][2] = PyStr(AfterSeparator(FirstCell(k)))
              /\ (Cardinality(Separators(FirstCell(k))) = 1 =>
                    BeforeSeparator(FirstCell(k)) \o <<FW>> \o datasets[k][2].s
                        = FirstCell(k))
        /\ (pc = "returned" =>
              \A k \in 1..Len(crawled.rows) :
                  /\ crawled.rows[k][ColumnIndex("sc")] = datasets[k][1]
                  /\ crawled.rows[k][ColumnIndex("cn")] = datasets[k][2])

\* a page with the row "9 1<U+3000>X" has been parsed and returned: symbol 91
C16_Witness ==
    /\ url # FUTURE_URL
    /\ pc = "returned"
    /\ \E k \in 1..Len(crawled.rows) :
          /\ \E p \in 1..Len(FirstCell(k)) : FirstCell(k)[p] = " "
          /\ crawled.rows[k][ColumnIndex("sc")] = PyStr(<<"9", "1">>)
          /\ crawled.rows[k][ColumnIndex("cn")] = PyStr(<<"X">>)

\* C18 as claimed: on a listed or OTC page every record is assembled as symbol,
\* current category, name, then the remaining cells.
C18_SymbolCategoryNameOrder ==
    url # FUTURE_URL =>
        \A k \in 1..Len(datasets) :
            /\ datasets[k][2] = TagBefore(processed, KthDataRow(processed, k))
            /\ datasets[k][3] = PyStr(AfterSeparator(FirstCell(k)))

\* C18 amended: on a listed or OTC page every record is assembled as symbol, name,
\* current category, then the remaining cells of its row in their order; the frame
\* returned gives these, in this order, to the columns sc, cn, ca, ic, dl, ma, si,
\* cc, no, with None for the columns a shorter row does not reach.
C18_SymbolNameCategoryOrder ==
    url # FUTURE_URL /\ pc # "request" =>
        /\ \A k \in 1..Len(datasets) :
              LET row == processed[KthDataRow(processed, k)]
              IN  datasets[k]
                    = << PyStr(SelectSeq(BeforeSeparator(row[1]), LAMBDA c : c # " ")),
                         PyStr(AfterSeparator(row[1])),
                         TagBefore(processed, KthDataRow(processed, k)) >>
                      \o [c \in 1..(Len(row) - 1) |-> PyStr(row[c + 1])]
        /\ (pc = "returned" =>
              /\ Len(crawled.rows) = Len(datasets)
              /\ get_columns_short = <<"sc", "cn", "ca", "ic", "dl", "ma", "si", "cc", "no">>
              /\ \A k \in 1..Len(crawled.rows) :
                    /\ Len(crawled.rows[k]) = Len(get_columns_short)
                    /\ \A c \in 1..Len(get_columns_short) :
                          crawled.rows[k][c]
                            = IF c <= Len(datasets[k]) THEN datasets[k][c] ELSE PyNone)

\* a seven-cell row under the header ETF has been parsed and returned: nine
\* columns, the name second and the category third
C18_Witness ==
    /\ url = OTC_URL
    /\ pc = "returned"
    /\ \E k \in 1..Len(crawled.rows) :
          /\ Len(processed[KthDataRow(processed, k)]) = 7
          /\ crawled.rows[k][ColumnIndex("cn")] = PyStr(<<"T">>)
          /\ crawled.rows[k][ColumnIndex("ca")] = PyStr(CodesCategory.ETF)
          /\ crawled.rows[k][ColumnIndex("no")] = PyStr(<<"c", "6">>)

====
